---- MODULE Spec2Model ----
(***************************************************************************)
(* The coastline segmentation engine of hotaru-14/coast:                   *)
(* CoastlineSegmenter.segmentCoastlines and extractSegmentCoordinates.     *)
(*                                                                         *)
(* Geometry.  Every way of the model lies on one meridian: all vertices    *)
(* share a longitude and a vertex is its position in metres northwards     *)
(* along that meridian.  On a meridian the great-circle distance of two    *)
(* points is exactly the absolute difference of their positions and the    *)
(* point at an arc length along a line is found by walking the line, so    *)
(* length, distance and along are exact integer (rational) arithmetic.     *)
(* A way may reverse and revisit locations (a zigzag, a closed ring).      *)
(* The simplification tolerance is expressed in the same unit.             *)
(*                                                                         *)
(* Rationals.  The split distances i * totalLength / numSegments are       *)
(* rationals with denominator numSegments.  A point on the line is held    *)
(* as its position multiplied by numSegments ("scaled"), so that every     *)
(* comparison of distances is a comparison of integers.  In Spec the       *)
(* distances are exact; the rounding of lines 63-69 is in SpecNumeric.     *)
(*                                                                         *)
(* Four specifications.  Spec is segmentCoastlines: a call, a second call  *)
(* on the same or the stripped input, or the same input given to one       *)
(* worker per way.  SpecImport is the import script importCoastlineData.ts *)
(* with the table coastline_segments it writes to; there the segments      *)
(* carry both numbers of every position, [longitude, latitude].            *)
(* SpecNumeric is the arithmetic of lines 63-69 of the segmenter in        *)
(* floating point.  SpecMap is the component CoastlineMap with the state   *)
(* React keeps for it, the values its committed render sees, its           *)
(* register-visit requests and its cooldown timers.  Each specification    *)
(* holds the variables of the others at their idle values.                 *)
(***************************************************************************)
EXTENDS Integers, Sequences, FiniteSets, TLC

\* ------------------------------------------------------------ bounds
\* Largest vertex position of a generated way (metres).
MaxPos == 3
\* Largest number of vertices of a generated way.
MaxVerts == 3
\* Largest number of ways in one input collection.
MaxWays == 2
\* Number of bits of the significand of a float of the arithmetic model
\* (53 in the doubles of the program).
Precision == 5
\* Largest number of full batches of an import, and largest number of
\* segments beyond the full batches.
MaxFullBatches == 2
MaxExtra == 1

\* Largest number of positions that the geolocation watch reports, largest
\* number of register-visit requests followed, number of clock steps in
\* one cooldown period and number of clock steps followed.
MaxFixes == 2
MaxCalls == 2
StepsPerCooldown == 1
MaxSteps == 3

\* ------------------------------------------------------------ helpers
Abs(x) == IF x < 0 THEN -x ELSE x
Min2(a, b) == IF a <= b THEN a ELSE b
Max2(a, b) == IF a >= b THEN a ELSE b
Last(s) == s[Len(s)]

\* No split index: the value of throwAt of a way that raises nothing.
NoThrow == 0 - 1

\* ------------------------------------------------------------ geometry primitives
\* turf.distance on the meridian: great-circle distance of two positions.
distance(p, q) == Abs(p - q)

\* Arc length from the first vertex to vertex k (1-based) of coords.
RECURSIVE cumLength(_, _)
cumLength(coords, k) ==
    IF k <= 1 THEN 0
    ELSE cumLength(coords, k - 1) + distance(coords[k - 1], coords[k])

\* turf.length: sum of the distances of consecutive vertices; 0 for one vertex.
length(coords) == cumLength(coords, Len(coords))

\* turf.along, scaled by n: n times the position of the point at arc length
\* d / n along coords.  The walk stops at the first vertex whose arc length
\* reaches d and steps back by the overshoot on the segment that leads to
\* it; past the end of the line it returns the last vertex.
along(coords, d, n) ==
    LET reached == {k \in 1..Len(coords) : n * cumLength(coords, k) >= d}
    IN  IF reached = {} THEN n * Last(coords)
        ELSE LET k == CHOOSE x \in reached : \A y \in reached : x <= y
                 overshoot == n * cumLength(coords, k) - d
             IN  IF overshoot = 0 \/ k = 1 THEN n * coords[k]
                 ELSE IF coords[k] >= coords[k - 1]
                      THEN n * coords[k] - overshoot
                      ELSE n * coords[k] + overshoot

\* ------------------------------------------------------------ simplifier
\* Distance of p to the segment from a to b (on the meridian: to the interval).
segDist(p, a, b) ==
    IF p < Min2(a, b) THEN Min2(a, b) - p
    ELSE IF p > Max2(a, b) THEN p - Max2(a, b)
    ELSE 0

\* One Douglas-Peucker step on the vertices strictly between first and last:
\* the interior vertices kept, in order.  The vertex of largest deviation
\* (the first of them) is kept when its deviation exceeds the tolerance, and
\* both sides are simplified in turn.
RECURSIVE simplifyDPStep(_, _, _, _)
simplifyDPStep(points, first, last, tolerance) ==
    LET inner == (first + 1)..(last - 1)
        dev(i) == segDist(points[i], points[first], points[last])
        far == {i \in inner : dev(i) > tolerance /\ \A j \in inner : dev(j) <= dev(i)}
    IN  IF far = {} THEN << >>
        ELSE LET index == CHOOSE i \in far : \A j \in far : i <= j
             IN  simplifyDPStep(points, first, index, tolerance)
                 \o << points[index] >>
                 \o simplifyDPStep(points, index, last, tolerance)

\* The simplification without the closing vertex.
simplifyOpenEnd(points, tolerance) ==
    IF Len(points) <= 2 THEN points
    ELSE << points[1] >> \o simplifyDPStep(points, 1, Len(points), tolerance)

\* turf.simplify with highQuality: Douglas-Peucker between the endpoints,
\* which are always kept; a line of at most two vertices is returned as is.
simplify(points, tolerance) ==
    IF Len(points) <= 2 THEN points
    ELSE << points[1] >>
         \o simplifyDPStep(points, 1, Len(points), tolerance)
         \o << Last(points) >>

\* ------------------------------------------------------------ inputs
\* A feature of the input collection: type is the geometry's type
\* ("missing" when the feature has no geometry), coordinates its vertex
\* list, id the way id of properties.id.  throwAt is the split index at
\* which a library call inside the try block of the split loop raises for
\* this way, NoThrow when none does.
Feature(id, type, coordinates, throwAt) ==
    [id |-> id, type |-> type, coordinates |-> coordinates, throwAt |-> throwAt]

\* Vertex lists of the generated ways.  Distances depend on differences of
\* positions only, so every generated way starts at position 0.
GenCoords ==
    UNION {{c \in [1..n -> 0..MaxPos] : c[1] = 0} : n \in 1..MaxVerts}

\* The ways under study: every generated LineString, ways whose split
\* raises at index 0 or 1, a way of another geometry type and a way with no
\* geometry.  A LineString of one vertex is a malformed way.
StudyWays ==
    {Feature(0, "LineString", c, NoThrow) : c \in GenCoords}
    \cup {Feature(0, "LineString", << 0, MaxPos, 0 >>, t) : t \in {0, 1}}
    \cup {Feature(0, "Point", << >>, NoThrow), Feature(0, "missing", << >>, NoThrow)}

\* The neighbours a studied way is placed among: a way without geometry,
\* a short way, a straight long way and a long closed way.
NeighbourWays ==
    { Feature(0, "missing", << >>, NoThrow),
      Feature(0, "LineString", << 0, 1 >>, NoThrow),
      Feature(0, "LineString", << 0, MaxPos >>, NoThrow),
      Feature(0, "LineString", << 0, MaxPos, 0 >>, NoThrow) }

\* The ways of the scenarios of the default configuration: a 200 m way, a
\* straight 5000 m way, a 5000 m way that runs back and forth and a 1600 m
\* way that ends, after two turns, in a 200 m tail.
ScenarioWays ==
    { Feature(0, "LineString", << 0, 200 >>, NoThrow),
      Feature(0, "LineString", << 0, 5000 >>, NoThrow),
      Feature(0, "LineString", << 0, 1250, 0, 1250, 0 >>, NoThrow),
      Feature(0, "LineString", << 0, 1100, 800, 1000 >>, NoThrow) }

\* The way ids of a collection are its positions: OSM way ids are distinct.
WithIds(fs) == [k \in 1..Len(fs) |-> [fs[k] EXCEPT !.id = k]]

\* Collections of 1..MaxWays ways with one studied way among neighbours.
GenInputs ==
    UNION {{WithIds([j \in 1..n |-> IF j = k THEN w ELSE nb[j]]) :
                k \in 1..n, w \in StudyWays, nb \in [1..n -> NeighbourWays]}
           : n \in 1..MaxWays}

ScenarioInputs ==
    UNION {{WithIds(fs) : fs \in [1..n -> ScenarioWays]} : n \in 1..2}

\* SegmentationConfig; DEFAULT_CONFIG with its tolerance of 0.0001 degrees
\* expressed in metres on the meridian.
DEFAULT_CONFIG ==
    [maxSegmentLength |-> 1500, minSegmentLength |-> 300, simplificationTolerance |-> 11]

GenConfigs ==
    { [maxSegmentLength |-> 2, minSegmentLength |-> 1, simplificationTolerance |-> 0],
      [maxSegmentLength |-> 3, minSegmentLength |-> 2, simplificationTolerance |-> 1] }

\* ------------------------------------------------------------ the segmenter's computations
\* Line 35: the feature has a geometry and it is a LineString.
IsLineString(feature) == feature.type = "LineString"

\* Line 39: turf.lineString raises on fewer than two positions.
LineStringThrows(feature) == Len(feature.coordinates) < 2

\* Lines 43-46: the simplified line of a way.
Simplified(feature, cfg) == simplify(feature.coordinates, cfg.simplificationTolerance)

\* Line 49: its length.
TotalLength(feature, cfg) == length(Simplified(feature, cfg))

\* Line 51.
IsShort(totalLength, cfg) == totalLength < cfg.minSegmentLength

\* Line 63.
IsLong(totalLength, cfg) == totalLength > cfg.maxSegmentLength

\* Line 64: Math.ceil(totalLength / maxSegmentLength).
NumSegments(totalLength, cfg) ==
    (totalLength + cfg.maxSegmentLength - 1) \div cfg.maxSegmentLength

\* Lines 65, 68: i * segmentLength, multiplied by numSegments.
StartDistance(i, totalLength) == i * totalLength

\* Lines 65, 69: Math.min((i + 1) * segmentLength, totalLength), multiplied
\* by numSegments.
EndDistance(i, totalLength, numSegments) ==
    Min2((i + 1) * totalLength, numSegments * totalLength)

\* The value Infinity of minStartDist and minEndDist before the scan:
\* every distance is below it.
Infinity == 0 - 1

\* The scan with <= for <: a later vertex at the same distance replaces
\* the earlier one.
RECURSIVE scanLastTie(_, _, _, _, _, _)
scanLastTie(coords, point, n, i, index, minDist) ==
    IF i > Len(coords) THEN index
    ELSE LET dist == distance(point, n * coords[i])
         IN  IF minDist = Infinity \/ dist <= minDist
             THEN scanLastTie(coords, point, n, i + 1, i, dist)
             ELSE scanLastTie(coords, point, n, i + 1, index, minDist)

nearestVertexIndexLastTie(coords, point, searchFrom, n) ==
    scanLastTie(coords, point, n, searchFrom, Len(coords), Infinity)

\* Lines 136-142 and 147-153: the loop from i on, with the index and the
\* distance found so far; a vertex replaces them when its distance is
\* strictly smaller (point is scaled by n).
RECURSIVE scan(_, _, _, _, _, _)
scan(coords, point, n, i, index, minDist) ==
    IF i > Len(coords) THEN index
    ELSE LET dist == distance(point, n * coords[i])
         IN  IF minDist = Infinity \/ dist < minDist
             THEN scan(coords, point, n, i + 1, i, dist)
             ELSE scan(coords, point, n, i + 1, index, minDist)

\* Lines 134-142 and 145-153: the search from searchFrom to the end of the
\* line.  The index it starts with (the first vertex in the start search,
\* the last in the end search) is replaced in its first iteration.
nearestVertexIndex(coords, point, searchFrom, n) ==
    scan(coords, point, n, searchFrom, Len(coords), Infinity)

\* Lines 134-142: the start search scans the whole line.
startIndexOf(coords, startCoord, n) == nearestVertexIndex(coords, startCoord, 1, n)

\* The end search over the whole line, from its first vertex.
endIndexOfFromFirst(coords, startCoord, endCoord, n) ==
    nearestVertexIndex(coords, endCoord, 1, n)

\* Lines 145-153: the end search scans from startIndex.
endIndexOf(coords, startCoord, endCoord, n) ==
    nearestVertexIndex(coords, endCoord, startIndexOf(coords, startCoord, n), n)

\* The extraction with its copy loop started one vertex late.
extractedRangeLateStart(coords, startCoord, endCoord, n) ==
    LET startIndex == startIndexOf(coords, startCoord, n)
        endIndex == endIndexOf(coords, startCoord, endCoord, n)
    IN  IF startIndex <= endIndex THEN SubSeq(coords, startIndex + 1, endIndex) ELSE << >>

\* Lines 155-160: the vertices startIndex..endIndex.
extractedRange(coords, startCoord, endCoord, n) ==
    LET startIndex == startIndexOf(coords, startCoord, n)
        endIndex == endIndexOf(coords, startCoord, endCoord, n)
    IN  IF startIndex <= endIndex THEN SubSeq(coords, startIndex, endIndex) ELSE << >>

\* Lines 125-163: the extracted range, or the whole line when the range
\* has fewer than two vertices.
extractSegmentCoordinates(coords, startCoord, endCoord, n) ==
    LET result == extractedRange(coords, startCoord, endCoord, n)
    IN  IF Len(result) >= 2 THEN result ELSE coords

\* Lines 72-80: the coordinates extracted for split index i of a long way.
SegmentCoords(feature, cfg, i) ==
    LET simplified == Simplified(feature, cfg)
        totalLength == length(simplified)
        numSegments == NumSegments(totalLength, cfg)
    IN  extractSegmentCoordinates(
            simplified,
            along(simplified, StartDistance(i, totalLength), numSegments),
            along(simplified, EndDistance(i, totalLength, numSegments), numSegments),
            numSegments)

\* A CoastlineSegment; id k stands for the string segment_k.
Segment(id, geometry, lengthMeters, originalWayId) ==
    [id |-> id, geometry |-> geometry, lengthMeters |-> lengthMeters,
     originalWayId |-> originalWayId]

\* The whole line with the counter advanced before its id is taken
\* (++segmentCounter for segmentCounter++).
WholeSegmentPreIncrement(counter, feature, cfg) ==
    Segment(counter + 1, Simplified(feature, cfg), TotalLength(feature, cfg), feature.id)

\* The whole line with the vertices it had before simplification.
WholeSegmentUnsimplified(counter, feature, cfg) ==
    Segment(counter, feature.coordinates, TotalLength(feature, cfg), feature.id)

\* Lines 53-58, 96-101, 107-112: the whole simplified line as one segment.
WholeSegment(counter, feature, cfg) ==
    Segment(counter, Simplified(feature, cfg), TotalLength(feature, cfg), feature.id)

\* The sub-segment with the nominal segmentLength stored as its length.
SubSegmentNominal(counter, feature, cfg, i) ==
    LET totalLength == TotalLength(feature, cfg)
    IN  Segment(counter, SegmentCoords(feature, cfg, i),
                totalLength \div NumSegments(totalLength, cfg), feature.id)

\* Lines 83-91: the sub-segment of split index i with its measured length.
SubSegment(counter, feature, cfg, i) ==
    LET segmentCoords == SegmentCoords(feature, cfg, i)
    IN  Segment(counter, segmentCoords, length(segmentCoords), feature.id)

\* The return of the unfiltered list.
validSegmentsUnfiltered(segs, cfg) == segs

\* The filter with > for >=.
validSegmentsStrict(segs, cfg) ==
    SelectSeq(segs, LAMBDA s : s.lengthMeters > cfg.minSegmentLength)

\* Line 119: segments.filter(s => s.lengthMeters >= config.minSegmentLength).
validSegments(segs, cfg) ==
    SelectSeq(segs, LAMBDA s : s.lengthMeters >= cfg.minSegmentLength)

\* ------------------------------------------------------------ state
VARIABLES
    features,        \* coastlineData.features of the current call
    config,          \* the SegmentationConfig of the call
    pc,              \* "call", "loop", "workers", "done" (returned) or "thrown" (raised)
    fi,              \* position of the for-of loop over features (1-based)
    si,              \* split index i of the inner loop
    segments,        \* the local list segments
    segmentCounter,  \* the local counter segmentCounter
    origin,          \* per emitted segment: its way id, split index and branch
    outcome,         \* what the call returned
    run,             \* 1 for the first call, 2 for the second
    second,          \* the second call: "same", "stripped" or "workers"
    firstFeatures,   \* the features of the first call
    prev,            \* outcome of the first call
    parts            \* per way position: the local state of its worker

\* The import script (importCoastlineData.ts) and the store it writes to.
VARIABLES
    argImport,       \* process.argv[2] === '--import'
    ipc,             \* position of the script: "main", "fetch", "segment",
                     \* "delete", "batch", "caught" or "exited"
    isegments,       \* the segments that segmentCoastlines returns to the script
    catalog,         \* the rows of the table coastline_segments
    bi,              \* the loop variable i of the batch loop
    importedCount,   \* the local importedCount
    requests,        \* the requests issued to the store so far, in order
    thrown,          \* the error that left importToSupabase or a step before it
    exitCode,        \* the code given to process.exit
    irun,            \* 1 for the first run of the script, 2 for the second
    firstRun,        \* catalog and exit code at the end of the first run
    history          \* the catalog at the start of the run and the steps of
                     \* importIwateCoastline that have completed in it

importVars == << argImport, ipc, isegments, catalog, bi, importedCount, requests,
                 thrown, exitCode, irun, firstRun, history >>

\* The arithmetic of lines 63-69 in floating point.
VARIABLES
    flTotalLength,   \* totalLength, a float
    flMax,           \* config.maxSegmentLength, a float
    flNumSegments,   \* numSegments
    flSegmentLength, \* segmentLength, a float
    flIndex,         \* the split index i
    flDistances,     \* startDistance and endDistance of the indices so far
    flpc             \* "test", "loop" or "done"

numericVars == << flTotalLength, flMax, flNumSegments, flSegmentLength, flIndex,
                  flDistances, flpc >>

segmenterVars == << features, config, pc, fi, si, segments, segmentCounter, origin,
                    outcome, run, second, firstFeatures, prev, parts >>

\* The component CoastlineMap (part_001) in the browser.
VARIABLES
    mstate,          \* the state React holds for the component: the values
                     \* of registrationCooldown and coordinates after the
                     \* updates queued so far
    mrender,         \* the values of the committed render, which its
                     \* closures (checkAndRegisterVisit, handleManualCheck) see
    meffect,         \* the effect of lines 85-91 is due for the committed render
    mcalls,          \* the register-visit requests sent so far
    mnow             \* the clock, in milliseconds

mapVars == << mstate, mrender, meffect, mcalls, mnow >>

vars == << segmenterVars, importVars, numericVars, mapVars >>

\* What the actions of segmentCoastlines leave alone, and what the steps
\* of the import script leave alone.
asideOfSegmenter == << importVars, numericVars, mapVars >>
asideOfImport == << segmenterVars, numericVars, mapVars >>
asideOfNumeric == << segmenterVars, importVars, mapVars >>
asideOfMap == << segmenterVars, importVars, numericVars >>

\* The arithmetic not under study.
NumericIdle ==
    /\ flTotalLength = 0
    /\ flMax = 0
    /\ flNumSegments = 0
    /\ flSegmentLength = 0
    /\ flIndex = 0
    /\ flDistances = << >>
    /\ flpc = "idle"

\* No time: a request that has not completed, a timer that is not set.
NoTime == 0 - 1

\* The values of the component's state that a render sees.
Snapshot(registrationCooldown, coordinates) ==
    [registrationCooldown |-> registrationCooldown, coordinates |-> coordinates]

\* The component not mounted.
MapIdle ==
    /\ mstate = Snapshot(FALSE, 0)
    /\ mrender = Snapshot(FALSE, 0)
    /\ meffect = FALSE
    /\ mcalls = << >>
    /\ mnow = NoTime

NoError == [code |-> "none"]
NoExit == 0 - 1

\* The catalog a run started from and the steps completed in it.
History(start, steps) == [catalog |-> start, steps |-> steps]

\* The import script not started: the state of its variables in the
\* behaviours of segmentCoastlines alone.
ImportIdle ==
    /\ argImport = FALSE
    /\ ipc = "idle"
    /\ isegments = << >>
    /\ catalog = {}
    /\ bi = 0
    /\ importedCount = 0
    /\ requests = << >>
    /\ thrown = NoError
    /\ exitCode = NoExit
    /\ irun = 1
    /\ firstRun = << >>
    /\ history = History({}, << >>)

NoOutcome == [status |-> "none", value |-> << >>]
Returned(segs) == [status |-> "returned", value |-> segs]
Threw == [status |-> "threw", value |-> << >>]

\* Where an emitted segment comes from: branch is "short", "normal", "sub"
\* (a split index whose try block completed) or "catch".
Origin(way, index, branch) == [way |-> way, index |-> index, branch |-> branch]

Init ==
    /\ \/ features \in GenInputs /\ config \in GenConfigs
       \/ features \in ScenarioInputs /\ config = DEFAULT_CONFIG
    /\ pc = "call"
    /\ fi = 1
    /\ si = 0
    /\ segments = << >>
    /\ segmentCounter = 0
    /\ origin = << >>
    /\ outcome = NoOutcome
    /\ run = 1
    /\ second = "none"
    /\ firstFeatures = features
    /\ prev = NoOutcome
    /\ parts = << >>
    /\ ImportIdle
    /\ NumericIdle
    /\ MapIdle

inputVars == << features, config, run, second, firstFeatures, prev >>

\* ------------------------------------------------------------ segmentCoastlines
\* The call with its counter kept from the call before (a static counter).
StartKeepsCounter ==
    /\ pc = "call"
    /\ pc' = "loop"
    /\ segments' = << >>
    /\ origin' = << >>
    /\ fi' = 1
    /\ si' = 0
    /\ UNCHANGED << segmentCounter, outcome, inputVars, parts, asideOfSegmenter >>

\* Lines 29-32: the locals of a call.
Start ==
    /\ pc = "call"
    /\ pc' = "loop"
    /\ segments' = << >>
    /\ segmentCounter' = 0
    /\ origin' = << >>
    /\ fi' = 1
    /\ si' = 0
    /\ UNCHANGED << outcome, inputVars, parts, asideOfSegmenter >>

InLoop == pc = "loop" /\ fi <= Len(features)

\* The way the loop is at, once it has a line: lines 39-49 completed.
HasLine == InLoop /\ IsLineString(features[fi]) /\ ~LineStringThrows(features[fi])

\* The push with segmentCounter left as it was.
EmitKeepsCounter(segment, index, branch) ==
    /\ segments' = Append(segments, segment)
    /\ origin' = Append(origin, Origin(features[fi].id, index, branch))
    /\ segmentCounter' = segmentCounter

\* Lines 53-59, 83-91, 96-101, 107-113: a segment is pushed and
\* segmentCounter++ has taken its id.
Emit(segment, index, branch) ==
    /\ segments' = Append(segments, segment)
    /\ origin' = Append(origin, Origin(features[fi].id, index, branch))
    /\ segmentCounter' = segmentCounter + 1

\* The next way entered with the split index of the way before it (an
\* index shared by the ways instead of a local of the inner loop).
NextWayKeepsSplitIndex == fi' = fi + 1 /\ si' = si

NextWay == fi' = fi + 1 /\ si' = 0

\* The skip with the counter advanced for the skipped feature.
SkipWayTakesId ==
    /\ InLoop
    /\ ~IsLineString(features[fi])
    /\ NextWay
    /\ segmentCounter' = segmentCounter + 1
    /\ UNCHANGED << pc, segments, origin, outcome, inputVars, parts, asideOfSegmenter >>

\* Lines 35-37: a feature without a LineString geometry is skipped.
SkipWay ==
    /\ InLoop
    /\ ~IsLineString(features[fi])
    /\ NextWay
    /\ UNCHANGED << pc, segments, segmentCounter, origin, outcome, inputVars, parts,
                    asideOfSegmenter >>

\* Lines 39-49 are outside every try block: an error raised there leaves
\* segmentCoastlines.  turf.lineString raises on fewer than two positions.
PrepareThrows ==
    /\ InLoop
    /\ IsLineString(features[fi])
    /\ LineStringThrows(features[fi])
    /\ pc' = "thrown"
    /\ outcome' = Threw
    /\ UNCHANGED << fi, si, segments, segmentCounter, origin, inputVars, parts, asideOfSegmenter >>

\* The short branch without its continue: the way runs on into the branch
\* of the ways of at most maxSegmentLength and is pushed a second time.
ShortWayNoContinue ==
    /\ HasLine
    /\ IsShort(TotalLength(features[fi], config), config)
    /\ segments' = segments
           \o << WholeSegment(segmentCounter, features[fi], config),
                 WholeSegment(segmentCounter + 1, features[fi], config) >>
    /\ origin' = origin
           \o << Origin(features[fi].id, NoThrow, "short"),
                 Origin(features[fi].id, NoThrow, "normal") >>
    /\ segmentCounter' = segmentCounter + 2
    /\ NextWay
    /\ UNCHANGED << pc, outcome, inputVars, parts, asideOfSegmenter >>

\* Lines 51-60: a short way is one segment, the whole simplified line.
ShortWay ==
    /\ HasLine
    /\ IsShort(TotalLength(features[fi], config), config)
    /\ Emit(WholeSegment(segmentCounter, features[fi], config), NoThrow, "short")
    /\ NextWay
    /\ UNCHANGED << pc, outcome, inputVars, parts, asideOfSegmenter >>

\* Lines 105-113: a way of at most maxSegmentLength is one segment.
NormalWay ==
    /\ HasLine
    /\ ~IsShort(TotalLength(features[fi], config), config)
    /\ ~IsLong(TotalLength(features[fi], config), config)
    /\ Emit(WholeSegment(segmentCounter, features[fi], config), NoThrow, "normal")
    /\ NextWay
    /\ UNCHANGED << pc, outcome, inputVars, parts, asideOfSegmenter >>

InSplit ==
    /\ HasLine
    /\ ~IsShort(TotalLength(features[fi], config), config)
    /\ IsLong(TotalLength(features[fi], config), config)

\* The loop test as i <= numSegments: one iteration more.
SplitAdvanceInclusive ==
    IF si + 1 <= NumSegments(TotalLength(features[fi], config), config)
    THEN si' = si + 1 /\ fi' = fi
    ELSE NextWay

\* Line 67: i++ and the loop test i < numSegments.
SplitAdvance ==
    IF si + 1 < NumSegments(TotalLength(features[fi], config), config)
    THEN si' = si + 1 /\ fi' = fi
    ELSE NextWay

\* Lines 67-92: one iteration of the split loop whose try block completes.
\* The segment is pushed when the extracted coordinates are two or more.
SplitStep ==
    /\ InSplit
    /\ features[fi].throwAt # si
    /\ IF Len(SegmentCoords(features[fi], config, si)) >= 2
       THEN Emit(SubSegment(segmentCounter, features[fi], config, si), si, "sub")
       ELSE UNCHANGED << segments, origin, segmentCounter >>
    /\ SplitAdvance
    /\ UNCHANGED << pc, outcome, inputVars, parts, asideOfSegmenter >>

\* Lines 93-103: an error inside the try block: the whole simplified line is
\* pushed and the split loop is left.
SplitCatch ==
    /\ InSplit
    /\ features[fi].throwAt = si
    /\ Emit(WholeSegment(segmentCounter, features[fi], config), si, "catch")
    /\ NextWay
    /\ UNCHANGED << pc, outcome, inputVars, parts, asideOfSegmenter >>

\* Lines 116-122: the filter over all segments, and the return.
Filter ==
    /\ pc = "loop"
    /\ fi > Len(features)
    /\ pc' = "done"
    /\ outcome' = Returned(validSegments(segments, config))
    /\ UNCHANGED << fi, si, segments, segmentCounter, origin, inputVars, parts, asideOfSegmenter >>

\* ------------------------------------------------------------ a second call
\* The features that have a LineString geometry.
Usable(fs) == SelectSeq(fs, IsLineString)

Finished == pc \in {"done", "thrown"}

\* segmentCoastlines is called again on the identical input.
CallAgain ==
    /\ Finished
    /\ run = 1
    /\ run' = 2
    /\ second' = "same"
    /\ prev' = outcome
    /\ pc' = "call"
    /\ outcome' = NoOutcome
    /\ UNCHANGED << features, config, firstFeatures, fi, si, segments,
                    segmentCounter, origin, parts, asideOfSegmenter >>

\* segmentCoastlines is called on the input without its skipped features.
CallStripped ==
    /\ Finished
    /\ run = 1
    /\ Usable(features) # features
    /\ run' = 2
    /\ second' = "stripped"
    /\ prev' = outcome
    /\ features' = Usable(features)
    /\ pc' = "call"
    /\ outcome' = NoOutcome
    /\ UNCHANGED << config, firstFeatures, fi, si, segments, segmentCounter,
                    origin, parts, asideOfSegmenter >>

\* ------------------------------------------------------------ independent workers
\* The ways processed by independent workers, one per way, each with its
\* own split index and its own list; the results are put back in the order
\* of the ways and numbered in one pass.
Worker(i, out, at) == [i |-> i, out |-> out, at |-> at]

NewWorker == Worker(0, << >>, "run")

\* One step of the loop body (lines 34-113) on one way with the worker's
\* locals: the skip, the raise of lines 39-49, the whole line of a way of
\* at most maxSegmentLength, or one iteration of the split loop.  The ids
\* are given by the numbering pass.
WorkerStep(w, feature, cfg) ==
    IF ~IsLineString(feature) THEN Worker(w.i, w.out, "done")
    ELSE IF LineStringThrows(feature) THEN Worker(w.i, w.out, "threw")
    ELSE IF \/ IsShort(TotalLength(feature, cfg), cfg)
            \/ ~IsLong(TotalLength(feature, cfg), cfg)
         THEN Worker(w.i, << WholeSegment(0, feature, cfg) >>, "done")
    ELSE IF feature.throwAt = w.i
         THEN Worker(w.i, Append(w.out, WholeSegment(0, feature, cfg)), "done")
    ELSE LET out == IF Len(SegmentCoords(feature, cfg, w.i)) >= 2
                    THEN Append(w.out, SubSegment(0, feature, cfg, w.i))
                    ELSE w.out
         IN  IF w.i + 1 < NumSegments(TotalLength(feature, cfg), cfg)
             THEN Worker(w.i + 1, out, "run")
             ELSE Worker(w.i + 1, out, "done")

\* The loop body repeated on one way until its worker has ended.  A worker
\* reads and writes its own locals only, so its run is taken as one step.
RECURSIVE WorkerRun(_, _, _)
WorkerRun(w, feature, cfg) ==
    IF w.at # "run" THEN w ELSE WorkerRun(WorkerStep(w, feature, cfg), feature, cfg)

\* The lists of the workers of the first k ways, in the order of the ways.
RECURSIVE Gathered(_, _)
Gathered(ps, k) ==
    IF k = 0 THEN << >> ELSE Gathered(ps, k - 1) \o ps[k].out

\* The numbering pass: the k-th segment (from 0) gets id segment_k.
Numbered(segs) == [k \in 1..Len(segs) |-> [segs[k] EXCEPT !.id = k - 1]]

\* The same input is given to one worker per way.
CallWorkers ==
    /\ Finished
    /\ run = 1
    /\ run' = 2
    /\ second' = "workers"
    /\ prev' = outcome
    /\ pc' = "workers"
    /\ outcome' = NoOutcome
    /\ parts' = [k \in 1..Len(features) |-> NewWorker]
    /\ UNCHANGED << features, config, firstFeatures, fi, si, segments,
                    segmentCounter, origin, asideOfSegmenter >>

\* Any worker that has not run processes its way: the workers run in any
\* order.
RunWorker ==
    /\ pc = "workers"
    /\ \E k \in 1..Len(features) :
           /\ parts[k].at = "run"
           /\ parts' = [parts EXCEPT ![k] = WorkerRun(parts[k], features[k], config)]
    /\ UNCHANGED << pc, fi, si, segments, segmentCounter, origin, outcome, inputVars,
                    asideOfSegmenter >>

\* All workers have ended: an error of a worker is the error of the job;
\* otherwise the lists are gathered, numbered and filtered.
Number ==
    /\ pc = "workers"
    /\ \A k \in 1..Len(features) : parts[k].at # "run"
    /\ IF \E k \in 1..Len(features) : parts[k].at = "threw"
       THEN pc' = "thrown" /\ outcome' = Threw
       ELSE /\ pc' = "done"
            /\ outcome' = Returned(validSegments(
                              Numbered(Gathered(parts, Len(features))), config))
    /\ UNCHANGED << fi, si, segments, segmentCounter, origin, inputVars, parts, asideOfSegmenter >>

Next ==
    \/ Start
    \/ SkipWay
    \/ PrepareThrows
    \/ ShortWay
    \/ NormalWay
    \/ SplitStep
    \/ SplitCatch
    \/ Filter
    \/ CallAgain
    \/ CallStripped
    \/ CallWorkers
    \/ RunWorker
    \/ Number

Spec == Init /\ [][Next]_vars

\* ------------------------------------------------------------ the import script
\* Line 79: the size of a batch.
BATCH_SIZE == 100

\* The string `segment_${k}` that the id k of a segment stands for: its
\* prefix and its number.
IdString(k) == << "segment_", k >>

\* A position of a geometry as the script reads it: [longitude, latitude].
Position(lon, lat) == << lon, lat >>

\* The segments handed to the script are what segmentCoastlines returns:
\* ids that increase, with a gap where the final filter dropped a segment.
\* Their lines are a two-vertex and a three-vertex line in turn.
ImportLine(k) ==
    IF k % 2 = 1
    THEN << Position(141, 39), Position(142, 40) >>
    ELSE << Position(142, 40), Position(141, 38), Position(143, 39) >>

ImportSegment(k, gap) ==
    Segment(IF k = 1 THEN 0 ELSE k - 1 + gap, ImportLine(k), 300 + k, 7000 + (k \div 2))

SegmentCounts ==
    {q * BATCH_SIZE + r : q \in 0..MaxFullBatches, r \in 0..MaxExtra}
    \cup {BATCH_SIZE - 1}

SegmentLists ==
    {[k \in 1..n |-> ImportSegment(k, gap)] : n \in SegmentCounts, gap \in {0, 1}}

\* Lines 24-28: a row of coastline_segments as the script writes it.
DatabaseSegment(svg_id, geom, name) == [svg_id |-> svg_id, geom |-> geom, name |-> name]

\* Array.join: the elements of strs with sep between them.
RECURSIVE Join(_, _)
Join(strs, sep) ==
    IF strs = << >> THEN << >>
    ELSE IF Len(strs) = 1 THEN Head(strs)
    ELSE Head(strs) \o << sep >> \o Join(Tail(strs), sep)

\* Lines 106-110: `${coord[0]} ${coord[1]}` of every position, joined by
\* ',' inside LINESTRING( ).  A text is the sequence of its pieces.
lineStringToPostGIS(coords) ==
    LET coordStrings == [k \in 1..Len(coords) |-> << coords[k][1], " ", coords[k][2] >>]
    IN  << "LINESTRING(" >> \o Join(coordStrings, ",") \o << ")" >>

\* Line 87: the name of a row, a fixed label ("Iwate coastline segment" in
\* Japanese) and a blank followed by the segment's id.
NameOf(id) == << "IwateCoastlineSegment", " " >> \o IdString(id)

\* Lines 84-88: the row of one segment.
dbSegment(segment) ==
    DatabaseSegment(IdString(segment.id), lineStringToPostGIS(segment.geometry),
                    NameOf(segment.id))

\* The slice without its last element: segments.slice(i, i + BATCH_SIZE - 1).
BatchShort(segs, i) == SubSeq(segs, i + 1, Min2(i + BATCH_SIZE - 1, Len(segs)))

\* Line 83: segments.slice(i, i + BATCH_SIZE), for i counted from 0.
Batch(segs, i) == SubSeq(segs, i + 1, Min2(i + BATCH_SIZE, Len(segs)))

\* Lines 84-88: the rows of the batch that starts at i.
dbSegments(segs, i) == {dbSegment(Batch(segs, i)[k]) : k \in 1..Len(Batch(segs, i))}

\* .like('svg_id', 'segment_%')
LikeSegment(row) == row.svg_id[1] = "segment_"

\* The table before the script runs: empty; the three rows of an earlier
\* run; or a row under another key and a row left over under segment_500.
OldRow(prefix, k) ==
    DatabaseSegment(<< prefix, k >>,
                    lineStringToPostGIS(<< Position(140, 38), Position(140, 39) >>),
                    << "old " >> \o << prefix, k >>)

PriorCatalogs ==
    { {},
      {OldRow("segment_", k) : k \in 0..2},
      {OldRow("coast_", 1), OldRow("segment_", 500)} }

\* The errors the store answers with: a violated UNIQUE constraint of
\* svg_id, or a failure of the service.
UniqueViolation == [code |-> "23505"]
Unavailable == [code |-> "503"]

\* svg_id is UNIQUE: an insert holding a key that the table has is refused.
Conflicts(rows) == \E r \in rows : \E c \in catalog : c.svg_id = r.svg_id

\* A request issued to the store: a delete, or the insert of the batch
\* with this index, of which the svg_id of its rows are kept, in the order
\* of the rows; ok when the store answered without error.
Request(op, batch, keys, ok) ==
    [op |-> op, batch |-> batch, count |-> Len(keys), keys |-> keys, ok |-> ok]

SegmenterIdle ==
    /\ features = << >>
    /\ config = DEFAULT_CONFIG
    /\ pc = "idle"
    /\ fi = 1
    /\ si = 0
    /\ segments = << >>
    /\ segmentCounter = 0
    /\ origin = << >>
    /\ outcome = NoOutcome
    /\ run = 1
    /\ second = "none"
    /\ firstFeatures = << >>
    /\ prev = NoOutcome
    /\ parts = << >>

ImportInit ==
    /\ argImport \in BOOLEAN
    /\ ipc = "main"
    /\ isegments \in SegmentLists
    /\ catalog \in PriorCatalogs
    /\ bi = 0
    /\ importedCount = 0
    /\ requests = << >>
    /\ thrown = NoError
    /\ exitCode = NoExit
    /\ irun = 1
    /\ firstRun = << >>
    /\ history = History(catalog, << >>)
    /\ SegmenterIdle
    /\ NumericIdle
    /\ MapIdle

\* What no step of a run changes, and with it the history of the run.
runVars == << argImport, isegments, irun, firstRun >>

scriptVars == << runVars, history >>

\* Lines 132-135: without --import the script prints its usage and exits 1.
Usage ==
    /\ ipc = "main"
    /\ ~argImport
    /\ ipc' = "exited"
    /\ exitCode' = 1
    /\ UNCHANGED << catalog, bi, importedCount, requests, thrown, scriptVars, asideOfImport >>

\* Lines 124-126: with --import, main calls importIwateCoastline.
MainImport ==
    /\ ipc = "main"
    /\ argImport
    /\ ipc' = "fetch"
    /\ UNCHANGED << catalog, bi, importedCount, requests, thrown, exitCode, scriptVars,
                    asideOfImport >>

\* Lines 37-42: the fetch and the save of the raw data complete.
FetchOk ==
    /\ ipc = "fetch"
    /\ ipc' = "segment"
    /\ history' = History(history.catalog, Append(history.steps, "fetch"))
    /\ UNCHANGED << catalog, bi, importedCount, requests, thrown, exitCode, runVars,
                    asideOfImport >>

\* Lines 37-42: fetchIwateCoastline (or the save) raises.
FetchThrows ==
    /\ ipc = "fetch"
    /\ ipc' = "caught"
    /\ thrown' = [code |-> "fetch"]
    /\ UNCHANGED << catalog, bi, importedCount, requests, exitCode, scriptVars,
                    asideOfImport >>

\* Lines 46-49: segmentCoastlines returns and the segments are saved.
SegmentOk ==
    /\ ipc = "segment"
    /\ ipc' = "delete"
    /\ history' = History(history.catalog, Append(history.steps, "segment"))
    /\ UNCHANGED << catalog, bi, importedCount, requests, thrown, exitCode, runVars,
                    asideOfImport >>

\* The segmentation raising after the delete was issued (the delete placed
\* before the segmentation).
SegmentThrowsAfterDelete ==
    /\ ipc = "segment"
    /\ ipc' = "caught"
    /\ thrown' = [code |-> "segment"]
    /\ catalog' = {row \in catalog : ~LikeSegment(row)}
    /\ requests' = Append(requests, Request("delete", 0, << >>, TRUE))
    /\ UNCHANGED << bi, importedCount, exitCode, scriptVars, asideOfImport >>

\* Lines 46-49: segmentCoastlines (or the save) raises.
SegmentThrows ==
    /\ ipc = "segment"
    /\ ipc' = "caught"
    /\ thrown' = [code |-> "segment"]
    /\ UNCHANGED << catalog, bi, importedCount, requests, exitCode, scriptVars,
                    asideOfImport >>

\* Lines 80-82: the locals of the batch loop.
EnterBatchLoop ==
    /\ ipc' = "batch"
    /\ bi' = 0
    /\ importedCount' = 0

\* Lines 69-72: the store deletes the rows whose svg_id is like segment_%.
DeleteOk ==
    /\ ipc = "delete"
    /\ catalog' = {row \in catalog : ~LikeSegment(row)}
    /\ requests' = Append(requests, Request("delete", 0, << >>, TRUE))
    /\ EnterBatchLoop
    /\ UNCHANGED << thrown, exitCode, scriptVars, asideOfImport >>

\* Lines 69-76: the store answers the delete with an error; the script
\* warns and goes on.
DeleteFails ==
    /\ ipc = "delete"
    /\ requests' = Append(requests, Request("delete", 0, << >>, FALSE))
    /\ EnterBatchLoop
    /\ UNCHANGED << catalog, thrown, exitCode, scriptVars, asideOfImport >>

InBatchLoop == ipc = "batch" /\ bi < Len(isegments)

\* The insert of a batch as a request.
InsertRequest(ok) ==
    LET batch == Batch(isegments, bi)
    IN  Request("insert", bi \div BATCH_SIZE,
                [k \in 1..Len(batch) |-> dbSegment(batch[k]).svg_id], ok)

\* Lines 82-100: a batch is inserted.
InsertOk ==
    /\ InBatchLoop
    /\ ~Conflicts(dbSegments(isegments, bi))
    /\ catalog' = catalog \cup dbSegments(isegments, bi)
    /\ requests' = Append(requests, InsertRequest(TRUE))
    /\ importedCount' = importedCount + Len(Batch(isegments, bi))
    /\ bi' = bi + BATCH_SIZE
    /\ UNCHANGED << ipc, thrown, exitCode, scriptVars, asideOfImport >>

\* A refused insert that is logged and passed over: the loop goes on.
InsertFailsGoesOn ==
    /\ InBatchLoop
    /\ requests' = Append(requests, InsertRequest(FALSE))
    /\ bi' = bi + BATCH_SIZE
    /\ UNCHANGED << ipc, catalog, importedCount, thrown, exitCode, scriptVars,
                    asideOfImport >>

\* Lines 90-97: the store answers the insert with an error (the insert is
\* one statement: none of its rows is stored); the script logs the batch
\* number and throws the store's error.
InsertFails ==
    /\ InBatchLoop
    /\ requests' = Append(requests, InsertRequest(FALSE))
    /\ thrown' = IF Conflicts(dbSegments(isegments, bi)) THEN UniqueViolation
                 ELSE Unavailable
    /\ ipc' = "caught"
    /\ UNCHANGED << catalog, bi, importedCount, exitCode, scriptVars, asideOfImport >>

\* Lines 103, 55-56, 127: the loop has ended; importIwateCoastline returns
\* and main exits with 0.
Finish ==
    /\ ipc = "batch"
    /\ bi >= Len(isegments)
    /\ ipc' = "exited"
    /\ exitCode' = 0
    /\ UNCHANGED << catalog, bi, importedCount, requests, thrown, scriptVars,
                    asideOfImport >>

\* Lines 58-61, 128-131: the error is rethrown to main, which exits with 1.
ExitFailure ==
    /\ ipc = "caught"
    /\ ipc' = "exited"
    /\ exitCode' = 1
    /\ UNCHANGED << catalog, bi, importedCount, requests, thrown, scriptVars,
                    asideOfImport >>

\* What a run leaves behind.
RunEnd == [catalog |-> catalog, exitCode |-> exitCode, requests |-> requests]

\* The operator runs the script once more, with the same segments.
RunAgain ==
    /\ ipc = "exited"
    /\ argImport
    /\ irun = 1
    /\ irun' = 2
    /\ firstRun' = << RunEnd >>
    /\ ipc' = "main"
    /\ bi' = 0
    /\ importedCount' = 0
    /\ requests' = << >>
    /\ thrown' = NoError
    /\ exitCode' = NoExit
    /\ history' = History(catalog, << >>)
    /\ UNCHANGED << argImport, isegments, catalog, asideOfImport >>

ImportNext ==
    \/ Usage
    \/ MainImport
    \/ FetchOk
    \/ FetchThrows
    \/ SegmentOk
    \/ SegmentThrows
    \/ DeleteOk
    \/ DeleteFails
    \/ InsertOk
    \/ InsertFails
    \/ Finish
    \/ ExitFailure
    \/ RunAgain

SpecImport == ImportInit /\ [][ImportNext]_vars

\* ------------------------------------------------------------ floating point
\* The numbers of lines 63-69 are floats: binary, with a significand of
\* Precision bits, rounded to nearest with ties to the even significand.
\* A float is held as its count of units, a unit being the spacing of the
\* smallest floats of the model; One is the number 1.
One == 2 ^ Precision

\* The floats of the binade with this exponent, and the floats of the model.
Binade(e) == {m * 2 ^ e : m \in (2 ^ (Precision - 1))..(2 ^ Precision - 1)}

Floats == UNION {Binade(e) : e \in 0..(Precision + 2)}

\* The exponent of the binade that the positive rational a / b lies in.
ExponentOf(a, b) ==
    CHOOSE e \in 0..(3 * Precision) :
        /\ 2 ^ (Precision - 1 + e) * b <= a
        /\ a < 2 ^ (Precision + e) * b

\* The float nearest to the rational a / b (a >= 0, b > 0).
RoundToNearest(a, b) ==
    IF a = 0 THEN 0
    ELSE LET ulp == 2 ^ ExponentOf(a, b)
             m == a \div (b * ulp)
             rest == a - m * b * ulp
         IN  IF 2 * rest > b * ulp THEN (m + 1) * ulp
             ELSE IF 2 * rest < b * ulp THEN m * ulp
             ELSE IF m % 2 = 0 THEN m * ulp
             ELSE (m + 1) * ulp

\* x / y and x * y of floats, and k * x for a loop index k.
FloatDiv(x, y) == RoundToNearest(x * One, y)
FloatDivInt(x, k) == RoundToNearest(x, k)
FloatMulInt(k, x) == RoundToNearest(k * x, 1)

\* A ceiling that drops the fraction.
CeilTruncated(x) == x \div One

\* Math.ceil of a float, as an integer.
Ceil(x) == (x + One - 1) \div One

\* The values of config.maxSegmentLength and of totalLength that are taken:
\* maxSegmentLength over one binade, totalLength up to 6 times it.
FloatMaxLengths == Binade(2)

FloatInputs ==
    {<< t, mx >> \in Floats \X FloatMaxLengths : t <= 6 * mx /\ 2 * t > mx}

NumericInit ==
    /\ \E input \in FloatInputs :
           /\ flTotalLength = input[1]
           /\ flMax = input[2]
    /\ flNumSegments = 0
    /\ flSegmentLength = 0
    /\ flIndex = 0
    /\ flDistances = << >>
    /\ flpc = "test"
    /\ SegmenterIdle
    /\ ImportIdle
    /\ MapIdle

\* Line 63 is false: the way is not split.
NotLong ==
    /\ flpc = "test"
    /\ ~(flTotalLength > flMax)
    /\ flpc' = "done"
    /\ UNCHANGED << flTotalLength, flMax, flNumSegments, flSegmentLength, flIndex,
                    flDistances, asideOfNumeric >>

\* Lines 63-65: numSegments and segmentLength.
Divide ==
    /\ flpc = "test"
    /\ flTotalLength > flMax
    /\ flNumSegments' = Ceil(FloatDiv(flTotalLength, flMax))
    /\ flSegmentLength' = FloatDivInt(flTotalLength, flNumSegments')
    /\ flIndex' = 0
    /\ flpc' = "loop"
    /\ UNCHANGED << flTotalLength, flMax, flDistances, asideOfNumeric >>

\* startDistance and endDistance of an index.
Distances(startDistance, endDistance) ==
    [startDistance |-> startDistance, endDistance |-> endDistance]

\* Lines 67-69: startDistance and endDistance of the split index i.
Distance ==
    /\ flpc = "loop"
    /\ flIndex < flNumSegments
    /\ flDistances' =
           Append(flDistances,
                  Distances(FloatMulInt(flIndex, flSegmentLength),
                            Min2(FloatMulInt(flIndex + 1, flSegmentLength),
                                 flTotalLength)))
    /\ flIndex' = flIndex + 1
    /\ UNCHANGED << flTotalLength, flMax, flNumSegments, flSegmentLength, flpc,
                    asideOfNumeric >>

\* Line 67: the loop test fails.
LoopEnd ==
    /\ flpc = "loop"
    /\ flIndex >= flNumSegments
    /\ flpc' = "done"
    /\ UNCHANGED << flTotalLength, flMax, flNumSegments, flSegmentLength, flIndex,
                    flDistances, asideOfNumeric >>

NumericNext ==
    \/ NotLong
    \/ Divide
    \/ Distance
    \/ LoopEnd

SpecNumeric == NumericInit /\ [][NumericNext]_vars

\* ------------------------------------------------------------ the component CoastlineMap
\* React keeps the component's state; a setter queues an update and the
\* component is rendered again later.  The functions of a render
\* (checkAndRegisterVisit, handleManualCheck, the effect) see the values of
\* that render.  autoCheckEnabled keeps its initial value true, and
\* geoLoading is false once the watch has reported a position.
\* coordinates is 0 for null and k for the k-th reported position.

\* Line 80: the delay of the cooldown timer, in milliseconds.
COOLDOWN == 30000

\* One step of the clock.
ClockStep == COOLDOWN \div StepsPerCooldown

\* A register-visit request: when it was sent, when it completed, where
\* its call of checkAndRegisterVisit is ("flight": awaiting registerVisit,
\* "visits": awaiting fetchVisits, "timer": returned with its timer set,
\* "over": its timer has fired), and when its timer is due.
Call(at, done, phase, due) == [at |-> at, done |-> done, phase |-> phase, due |-> due]

MapInit ==
    /\ mstate = Snapshot(FALSE, 0)
    /\ mrender = Snapshot(FALSE, 0)
    /\ meffect = TRUE
    /\ mcalls = << >>
    /\ mnow = 0
    /\ SegmenterIdle
    /\ ImportIdle
    /\ NumericIdle

\* Lines 48-56: checkAndRegisterVisit of the committed render, up to its
\* first await: it returns when the registrationCooldown of its render is
\* set; otherwise it queues registrationCooldown = true and sends the
\* request.
checkAndRegisterVisit ==
    IF mrender.registrationCooldown
    THEN UNCHANGED << mstate, mcalls >>
    ELSE /\ Len(mcalls) < MaxCalls
         /\ mstate' = Snapshot(TRUE, mstate.coordinates)
         /\ mcalls' = Append(mcalls, Call(mnow, NoTime, "flight", NoTime))

\* The geolocation watch reports a position: coordinates is a new object.
PositionUpdate ==
    /\ mstate.coordinates < MaxFixes
    /\ mstate' = Snapshot(mstate.registrationCooldown, mstate.coordinates + 1)
    /\ UNCHANGED << mrender, meffect, mcalls, mnow, asideOfMap >>

\* A re-render: the queued updates are applied and the render is
\* committed; a dependency of the effect of lines 85-91 has changed
\* (coordinates, or checkAndRegisterVisit through registrationCooldown).
\* React runs the effects of the render before it, if still due, first.
Render ==
    /\ mstate # mrender
    /\ ~meffect
    /\ mrender' = mstate
    /\ meffect' = TRUE
    /\ UNCHANGED << mstate, mcalls, mnow, asideOfMap >>

\* Lines 85-91: the effect of the committed render.
Effect ==
    /\ meffect
    /\ meffect' = FALSE
    /\ IF mrender.coordinates # 0
       THEN checkAndRegisterVisit
       ELSE UNCHANGED << mstate, mcalls >>
    /\ UNCHANGED << mrender, mnow, asideOfMap >>

\* Lines 110-116, 201-207: a click on the manual-check button, which is
\* disabled without coordinates or with registrationCooldown set.
ManualCheck ==
    /\ mrender.coordinates # 0
    /\ ~mrender.registrationCooldown
    /\ checkAndRegisterVisit
    /\ UNCHANGED << mrender, meffect, mnow, asideOfMap >>

\* The timer of line 80 is set.
TimerSet(call) == Call(call.at, call.done, "timer", mnow + COOLDOWN)

\* Lines 56-81: registerVisit settles.  With success the call awaits
\* fetchVisits (line 64); otherwise (not near a coastline, or an error) it
\* reaches finally and sets its timer.
Respond ==
    \E k \in 1..Len(mcalls), success \in BOOLEAN :
        /\ mcalls[k].phase = "flight"
        /\ mcalls' =
               [mcalls EXCEPT ![k] =
                    IF success
                    THEN Call(mcalls[k].at, mnow, "visits", NoTime)
                    ELSE TimerSet(Call(mcalls[k].at, mnow, "flight", NoTime))]
        /\ UNCHANGED << mstate, mrender, meffect, mnow, asideOfMap >>

\* Lines 64, 78-81: fetchVisits settles and the call sets its timer.
VisitsFetched ==
    \E k \in 1..Len(mcalls) :
        /\ mcalls[k].phase = "visits"
        /\ mcalls' = [mcalls EXCEPT ![k] = TimerSet(mcalls[k])]
        /\ UNCHANGED << mstate, mrender, meffect, mnow, asideOfMap >>

\* Line 80: a timer fires and queues registrationCooldown = false.
TimerFires ==
    \E k \in 1..Len(mcalls) :
        /\ mcalls[k].phase = "timer"
        /\ mnow >= mcalls[k].due
        /\ mcalls' = [mcalls EXCEPT ![k].phase = "over"]
        /\ mstate' = Snapshot(FALSE, mstate.coordinates)
        /\ UNCHANGED << mrender, meffect, mnow, asideOfMap >>

\* Time passes, up to the next timer that is due.
Tick ==
    /\ mnow + ClockStep <= MaxSteps * ClockStep
    /\ \A k \in 1..Len(mcalls) :
           mcalls[k].phase = "timer" => mnow + ClockStep <= mcalls[k].due
    /\ mnow' = mnow + ClockStep
    /\ UNCHANGED << mstate, mrender, meffect, mcalls, asideOfMap >>

MapNext ==
    \/ PositionUpdate
    \/ Render
    \/ Effect
    \/ ManualCheck
    \/ Respond
    \/ VisitsFetched
    \/ TimerFires
    \/ Tick

SpecMap == MapInit /\ [][MapNext]_vars

\* ------------------------------------------------------------ vocabulary of the properties
\* The emitted segments with their origins, in emission order.
Emitted == [k \in 1..Len(segments) |-> [seg |-> segments[k], from |-> origin[k]]]

\* The segments emitted for the way with this id, in emission order.
EmittedOf(id) == SelectSeq(Emitted, LAMBDA e : e.from.way = id)

\* The features of the current call whose processing has ended normally.
DoneFeatures ==
    IF pc = "call" THEN {}
    ELSE {features[k] : k \in 1..Min2(fi - 1, Len(features))}

\* The done features that had a line, and those of them that were split.
DoneLines == {f \in DoneFeatures : IsLineString(f) /\ ~LineStringThrows(f)}
DoneLong == {f \in DoneLines : IsLong(TotalLength(f, config), config)}
DoneShort == {f \in DoneLines : IsShort(TotalLength(f, config), config)}

\* The records of the returned list that come from the way with this id.
ReturnedOf(id) == SelectSeq(outcome.value, LAMBDA s : s.originalWayId = id)

\* The feature with this way id (an emitted segment's way is a LineString
\* feature, which every call on this input holds).
FeatureOf(id) == CHOOSE f \in {features[k] : k \in 1..Len(features)} : f.id = id

RECURSIVE SumLengths(_)
SumLengths(es) ==
    IF es = << >> THEN 0 ELSE Head(es).seg.lengthMeters + SumLengths(Tail(es))

\* The largest distance between consecutive vertices of a line.
MaxSpacing(coords) ==
    LET gaps == {distance(coords[k], coords[k + 1]) : k \in 1..(Len(coords) - 1)}
    IN  CHOOSE g \in gaps : \A h \in gaps : h <= g

\* The vertex range located for split index i of a way has fewer than two
\* vertices (the degenerate extraction).
Degenerate(f, i) ==
    LET simplified == Simplified(f, config)
        totalLength == length(simplified)
        numSegments == NumSegments(totalLength, config)
    IN  Len(extractedRange(
            simplified,
            along(simplified, StartDistance(i, totalLength), numSegments),
            along(simplified, EndDistance(i, totalLength, numSegments), numSegments),
            numSegments)) < 2

\* Exactly one vertex from searchFrom on is nearest to point: the located
\* index does not rest on the order in which equal distances are met.
NearestUnique(coords, point, searchFrom, n) ==
    LET range == searchFrom..Len(coords)
        dist(i) == distance(point, n * coords[i])
    IN  Cardinality({i \in range : \A j \in range : dist(i) <= dist(j)}) = 1

\* The extraction for split index i is degenerate and both of its searches
\* have a single nearest vertex.
ClearlyDegenerate(f, i) ==
    LET simplified == Simplified(f, config)
        totalLength == length(simplified)
        numSegments == NumSegments(totalLength, config)
        startCoord == along(simplified, StartDistance(i, totalLength), numSegments)
        endCoord == along(simplified, EndDistance(i, totalLength, numSegments), numSegments)
    IN  /\ Degenerate(f, i)
        /\ NearestUnique(simplified, startCoord, 1, numSegments)
        /\ NearestUnique(simplified, endCoord,
                         startIndexOf(simplified, startCoord, numSegments), numSegments)

IsWhole(e, f) ==
    /\ e.seg.geometry = Simplified(f, config)
    /\ e.seg.lengthMeters = TotalLength(f, config)

\* ------------------------------------------------------------ C1
\* C1: no segment of the list returned by segmentCoastlines has
\* lengthMeters below config.minSegmentLength.
C1_MinimumFilter ==
    pc = "done" =>
        \A k \in 1..Len(outcome.value) :
            outcome.value[k].lengthMeters >= config.minSegmentLength

\* A call has returned a non-empty list after dropping an emitted segment
\* that was shorter than the minimum.
C1_Witness ==
    /\ pc = "done"
    /\ outcome.value # << >>
    /\ \E k \in 1..Len(segments) : segments[k].lengthMeters < config.minSegmentLength

\* ------------------------------------------------------------ C2
\* C2: for a way longer than maxSegmentLength on which nothing raises,
\* every segment emitted by a split index before the last has measured
\* length at most maxSegmentLength plus one vertex spacing, and no
\* sub-segment has the length of the whole way.
C2_LengthBound ==
    \A k \in 1..Len(Emitted) :
        LET e == Emitted[k]
        IN  e.from.branch = "sub" =>
                LET f == FeatureOf(e.from.way)
                    simplified == Simplified(f, config)
                    totalLength == length(simplified)
                IN  f.throwAt = NoThrow =>
                        /\ e.from.index < NumSegments(totalLength, config) - 1 =>
                               e.seg.lengthMeters
                                   <= config.maxSegmentLength + MaxSpacing(simplified)
                        /\ e.seg.lengthMeters < totalLength

\* ------------------------------------------------------------ C3
\* C3: for every split way, the sub-segments emitted for it, concatenated
\* in order, start at the first vertex of the simplified way and end at
\* its last vertex.
C3_Coverage ==
    \A f \in DoneLong :
        LET es == EmittedOf(f.id)
            simplified == Simplified(f, config)
        IN  /\ es # << >>
            /\ Head(Head(es).seg.geometry) = Head(simplified)
            /\ Last(Last(es).seg.geometry) = Last(simplified)

\* A way was split into at least two sub-segments, the first and the last
\* of which are proper parts of the simplified line.
C3_Witness ==
    \E f \in DoneLong :
        LET es == EmittedOf(f.id)
        IN  /\ Len(es) >= 2
            /\ f.throwAt = NoThrow
            /\ Head(es).seg.geometry # Simplified(f, config)
            /\ Last(es).seg.geometry # Simplified(f, config)

\* ------------------------------------------------------------ C4
\* C4: a second call of segmentCoastlines on the identical input and config
\* ends as the first did: the same segments with the same ids, coordinates,
\* lengths and way ids in the same order; the first segment emitted by a
\* call has id segment_0.
C4_Determinism ==
    /\ run = 2 /\ second = "same" /\ Finished => outcome = prev
    /\ pc # "call" /\ segments # << >> => segments[1].id = 0

\* The second call on the same input has returned two or more segments.
C4_Witness ==
    /\ run = 2
    /\ second = "same"
    /\ pc = "done"
    /\ Len(outcome.value) >= 2

\* ------------------------------------------------------------ C5
\* C5: a way whose simplified length is below minSegmentLength emits
\* exactly one segment, the whole simplified line, and none of the returned
\* records comes from it.
C5_ShortWay ==
    \A f \in DoneShort :
        LET es == EmittedOf(f.id)
        IN  /\ Len(es) = 1
            /\ IsWhole(es[1], f)
            /\ pc = "done" => ReturnedOf(f.id) = << >>

\* Under the default configuration a call has returned after a two-vertex
\* way of 200 m, with records of another way in the returned list.
C5_Witness ==
    /\ pc = "done"
    /\ config = DEFAULT_CONFIG
    /\ outcome.value # << >>
    /\ \E f \in DoneShort :
           Len(f.coordinates) = 2 /\ TotalLength(f, config) = 200

\* ------------------------------------------------------------ C6
\* C6: for a way longer than maxSegmentLength on which nothing raises, the
\* measured lengths of the segments emitted for it sum to the length of the
\* simplified way; the 5000 m way under the default configuration gives 4
\* segments, each of at most 1260 m and none below 300 m.
C6_LengthsSum ==
    \A f \in DoneLong :
        LET es == EmittedOf(f.id)
            totalLength == TotalLength(f, config)
        IN  f.throwAt = NoThrow =>
                /\ SumLengths(es) = totalLength
                /\ config = DEFAULT_CONFIG /\ totalLength = 5000 =>
                       /\ Len(es) = 4
                       /\ \A k \in 1..4 :
                              /\ es[k].seg.lengthMeters <= 1260
                              /\ es[k].seg.lengthMeters >= 300

\* ------------------------------------------------------------ C7
\* C7: when the vertex range extracted for split index i of a long way has
\* fewer than two vertices (each search having a single nearest vertex),
\* the whole simplified line is emitted and no segment is emitted for a
\* split index greater than i of that way.
C7_FallbackStops ==
    \A k \in 1..Len(Emitted) :
        LET e == Emitted[k]
            f == FeatureOf(e.from.way)
        IN  e.from.branch = "sub" /\ ClearlyDegenerate(f, e.from.index) =>
                /\ IsWhole(e, f)
                /\ \A j \in 1..Len(Emitted) :
                       Emitted[j].from.way = e.from.way =>
                           Emitted[j].from.index <= e.from.index

\* ------------------------------------------------------------ C8
\* C8: when the split of a long way falls back (here: a degenerate
\* extraction whose searches each have a single nearest vertex, on a way
\* where no library call raises), the way has exactly one emitted segment,
\* the whole simplified line.
FellBack(f) ==
    \E k \in 1..Len(Emitted) :
        /\ Emitted[k].from.way = f.id
        /\ \/ Emitted[k].from.branch = "catch"
           \/ /\ Emitted[k].from.branch = "sub"
              /\ ClearlyDegenerate(f, Emitted[k].from.index)

C8_FallbackSingle ==
    \A f \in DoneLong :
        f.throwAt = NoThrow /\ FellBack(f) =>
            /\ Len(EmittedOf(f.id)) = 1
            /\ IsWhole(EmittedOf(f.id)[1], f)

\* ------------------------------------------------------------ C9
\* C9: a failure while simplifying or splitting one way never leaves
\* segmentCoastlines: the call returns, and every way with a line has been
\* processed and has emitted its segments.
C9_FailureContained ==
    /\ pc # "thrown"
    /\ pc = "done" =>
           \A k \in 1..Len(features) :
               IsLineString(features[k]) => EmittedOf(features[k].id) # << >>

\* ------------------------------------------------------------ C10
\* C10: a feature whose geometry is missing or is not a LineString emits no
\* segment and takes no id (the counter is the number of emitted segments),
\* and the call ends as the call on the input without the skipped features
\* does: the same segments with the same ids.
C10_SkippedAbsent ==
    /\ \A k \in 1..Len(Emitted) : IsLineString(FeatureOf(Emitted[k].from.way))
    /\ pc # "call" => segmentCounter = Len(segments)
    /\ run = 2 /\ second = "stripped" /\ Finished => outcome = prev

\* The call on the stripped input has returned a segment of a way that
\* followed a skipped feature in the first input.
C10_Witness ==
    /\ run = 2
    /\ second = "stripped"
    /\ pc = "done"
    /\ \E j \in 1..Len(firstFeatures) :
           /\ ~IsLineString(firstFeatures[j])
           /\ \E k \in 1..Len(outcome.value) :
                  outcome.value[k].originalWayId > firstFeatures[j].id


\* ------------------------------------------------------------ C11
\* The number of segments emitted for a done way, before the final filter.
EmittedCount(f) == Len(EmittedOf(f.id))

\* The split index at which the try block of a long way raises: throwAt
\* when it lies inside the loop's range, NoThrow otherwise.
RaisesAt(f) ==
    IF f.throwAt \in 0..(NumSegments(TotalLength(f, config), config) - 1)
    THEN f.throwAt
    ELSE NoThrow

PositionOf(id) == CHOOSE p \in 1..Len(features) : features[p].id = id

\* C12: at every moment of a run the k-th segment emitted so far (counting
\* from 0, before the final filter) has id segment_k; of two emitted
\* segments the earlier one comes from a way at the same or an earlier
\* position of the input, and when both come from the same way the earlier
\* one has the smaller split index.
C12_EmissionOrder ==
    pc # "call" =>
        /\ \A k \in 1..Len(segments) : segments[k].id = k - 1
        /\ \A j, k \in 1..Len(segments) :
               j < k =>
                   /\ PositionOf(origin[j].way) <= PositionOf(origin[k].way)
                   /\ origin[j].way = origin[k].way => origin[j].index < origin[k].index

\* A run has emitted the sub-segments of a split way and then a segment of
\* a later way.
C12_Witness ==
    /\ Len(segments) >= 3
    /\ origin[1].way = origin[2].way
    /\ origin[1].branch = "sub"
    /\ origin[2].branch = "sub"
    /\ Last(origin).way # origin[1].way

\* ------------------------------------------------------------ C13
\* A segment without its id: geometry, length and originalWayId.
Content(s) ==
    [geometry |-> s.geometry, lengthMeters |-> s.lengthMeters,
     originalWayId |-> s.originalWayId]

Contents(segs) == [k \in 1..Len(segs) |-> Content(segs[k])]

\* The segments the sequential pass emitted for the way with this id.
PassSegmentsOf(id) == SelectSeq(segments, LAMBDA s : s.originalWayId = id)

\* C13: the geometry, length and originalWayId of the segments derived
\* from a way are the same when a worker processes that way alone as when
\* the sequential pass processes it among the other ways; and when the
\* workers, run in any order, have all ended and their lists are numbered
\* in the order of the ways, the result is exactly the result of the
\* sequential pass.
C13_WorkersAgree ==
    second = "workers" =>
        /\ \A k \in 1..Len(features) :
               parts[k].at = "done" /\ prev.status = "returned" =>
                   Contents(parts[k].out) = Contents(PassSegmentsOf(features[k].id))
        /\ Finished => outcome = prev

\* The workers of two ways that both yield segments, one of them split,
\* have ended and their lists have been numbered and returned.
C13_Witness ==
    /\ second = "workers"
    /\ pc = "done"
    /\ Len(features) >= 2
    /\ Len(parts[1].out) >= 1
    /\ Len(parts[2].out) >= 2
    /\ Len(outcome.value) >= 3

\* ------------------------------------------------------------ C18
\* s is t with some of its elements left out, the others in their order.
RECURSIVE IsSubsequence(_, _)
IsSubsequence(s, t) ==
    IF s = << >> THEN TRUE
    ELSE IF t = << >> THEN FALSE
    ELSE IF Head(s) = Head(t) THEN IsSubsequence(Tail(s), Tail(t))
    ELSE IsSubsequence(s, Tail(t))

\* C18: for every way of at least two vertices that the loop builds a
\* line of, and the tolerance of the config (0 or more), the simplified
\* line is an order-preserving subsequence of the way's vertices, has at
\* least two vertices, starts with the way's first vertex and ends with
\* its last.
C18_SimplifyContract ==
    HasLine /\ config.simplificationTolerance >= 0 =>
        LET coords == features[fi].coordinates
            simplified == Simplified(features[fi], config)
        IN  /\ IsSubsequence(simplified, coords)
            /\ Len(simplified) >= 2
            /\ simplified[1] = coords[1]
            /\ Last(simplified) = Last(coords)

\* The loop has gone past a way from which the simplification removed a
\* vertex, and past one it left as it was with three vertices.
C18_Witness ==
    /\ \E f \in DoneLines : Len(Simplified(f, config)) < Len(f.coordinates)
    /\ \E f \in DoneLines : Len(Simplified(f, config)) = 3

\* ------------------------------------------------------------ C19
\* The positions of the emitted segments that are not below the minimum.
KeptPositions == {k \in 1..Len(segments) : segments[k].lengthMeters >= config.minSegmentLength}

\* C19: the list returned by the pass holds exactly the emitted segments of
\* all ways whose lengthMeters is at least minSegmentLength, each once, in
\* their emission order; a sub-segment of a split way that is below the
\* minimum is left out alone, the other sub-segments of its way being kept.
C19_FilterOnce ==
    pc = "done" /\ second # "workers" =>
        /\ IsSubsequence(outcome.value, segments)
        /\ Len(outcome.value) = Cardinality(KeptPositions)
        /\ \A k \in KeptPositions :
               \E j \in 1..Len(outcome.value) : outcome.value[j] = segments[k]
        /\ \A j \in 1..Len(outcome.value) :
               outcome.value[j].lengthMeters >= config.minSegmentLength

\* The pass has returned after a split way gave a sub-segment below the
\* minimum, which is not in the returned list, and another sub-segment of
\* the same way, which is.
C19_Witness ==
    /\ pc = "done"
    /\ second # "workers"
    /\ \E j, k \in 1..Len(segments) :
           /\ origin[j].way = origin[k].way
           /\ origin[j].branch = "sub"
           /\ origin[k].branch = "sub"
           /\ segments[j].lengthMeters < config.minSegmentLength
           /\ segments[k].lengthMeters >= config.minSegmentLength
           /\ \A i \in 1..Len(outcome.value) : outcome.value[i] # segments[j]
           /\ \E i \in 1..Len(outcome.value) : outcome.value[i] = segments[k]

\* ------------------------------------------------------------ C20
\* Lines 72-73 for split index i of a way: the points startPoint and
\* endPoint, scaled by numSegments.
StartCoord(f, i) ==
    LET simplified == Simplified(f, config)
        totalLength == length(simplified)
    IN  along(simplified, StartDistance(i, totalLength),
              NumSegments(totalLength, config))

EndCoord(f, i) ==
    LET simplified == Simplified(f, config)
        totalLength == length(simplified)
        numSegments == NumSegments(totalLength, config)
    IN  along(simplified, EndDistance(i, totalLength, numSegments), numSegments)

\* Points to locate on the line of a way: its split points and its
\* vertices, scaled by numSegments.
ProbePoints(f) ==
    LET simplified == Simplified(f, config)
        numSegments == NumSegments(length(simplified), config)
    IN  {StartCoord(f, i) : i \in 0..numSegments}
        \cup {numSegments * simplified[k] : k \in 1..Len(simplified)}

\* C20: in every call of extractSegmentCoordinates the located startIndex
\* is at most the located endIndex: for the start and end point of the
\* split index that the loop is at, on every way that reaches the split
\* loop; and, as the loop enters such a way, for every pair of split points
\* and vertices of its line taken as start and end point in either order,
\* lines that revisit a location included.
C20_StartBeforeEnd ==
    InSplit =>
        LET f == features[fi]
            simplified == Simplified(f, config)
            numSegments == NumSegments(length(simplified), config)
        IN  /\ startIndexOf(simplified, StartCoord(f, si), numSegments)
                   <= endIndexOf(simplified, StartCoord(f, si), EndCoord(f, si),
                                 numSegments)
            /\ si = 0 =>
                   \A p, q \in ProbePoints(f) :
                       startIndexOf(simplified, p, numSegments)
                           <= endIndexOf(simplified, p, q, numSegments)

\* The split loop has called extractSegmentCoordinates on a line that
\* revisits a location, with an end point whose nearest vertex of the whole
\* line lies before the located startIndex.
C20_Witness ==
    \E k \in 1..Len(origin) :
        /\ pc # "call"
        /\ origin[k].branch = "sub"
        /\ LET f == FeatureOf(origin[k].way)
               simplified == Simplified(f, config)
               numSegments == NumSegments(length(simplified), config)
               startCoord == StartCoord(f, origin[k].index)
               endCoord == EndCoord(f, origin[k].index)
           IN  /\ nearestVertexIndex(simplified, endCoord, 1, numSegments)
                      < startIndexOf(simplified, startCoord, numSegments)
               /\ startIndexOf(simplified, startCoord, numSegments)
                      <= endIndexOf(simplified, startCoord, endCoord, numSegments)

\* ------------------------------------------------------------ C14
\* The rows of this run's segments.
RunRows == {dbSegment(isegments[k]) : k \in 1..Len(isegments)}

\* The run of the script has ended without a thrown error.
EndedClean == ipc = "exited" /\ argImport /\ thrown = NoError /\ exitCode = 0

\* C14: after an import run that ends without a thrown error, the stored
\* rows whose svg_id starts with segment_ are exactly the rows of this
\* run's segments (no row of a prior run remains), and a second run with
\* the same segments that also ends without error leaves the catalog the
\* first run left.
C14_CatalogReplaced ==
    EndedClean =>
        /\ {row \in catalog : LikeSegment(row)} = RunRows
        /\ irun = 2 /\ firstRun[1].exitCode = 0 => catalog = firstRun[1].catalog

\* ------------------------------------------------------------ C15
\* The last request was an insert that the store refused.
InsertRefused == requests # << >> /\ Last(requests).op = "insert" /\ ~Last(requests).ok

\* C15: when the insert of a batch fails, the error that leaves the writer
\* holds the index of the failed batch and the number of rows attempted.
C15_ErrorNamesBatch ==
    ipc = "caught" /\ InsertRefused =>
        /\ "batch" \in DOMAIN thrown
        /\ thrown.batch = Last(requests).batch
        /\ "count" \in DOMAIN thrown
        /\ thrown.count = Last(requests).count

\* ------------------------------------------------------------ C16
\* The positions of requests that are inserts of the batch with index k.
InsertsOf(k) == {p \in 1..Len(requests) : requests[p].op = "insert" /\ requests[p].batch = k}

\* C16: when the insert of batch k fails, batch k has been attempted
\* exactly once, no request follows the failed one (no batch after k is
\* attempted), the rows of every batch before k are in the catalog, and
\* the process does not go on: it ends, with exit code 1.
C16_FailedBatchEndsRun ==
    \A p \in 1..Len(requests) :
        requests[p].op = "insert" /\ ~requests[p].ok =>
            LET k == requests[p].batch
            IN  /\ Cardinality(InsertsOf(k)) = 1
                /\ p = Len(requests)
                /\ \A j \in (k + 1)..(Len(isegments) \div BATCH_SIZE) : InsertsOf(j) = {}
                /\ \A j \in 0..(k - 1) : dbSegments(isegments, j * BATCH_SIZE) \subseteq catalog
                /\ ipc \in {"caught", "exited"}
                /\ ipc = "exited" => exitCode = 1

\* The insert of the second of three batches has failed after the first
\* was stored, and the process has ended.
C16_Witness ==
    /\ ipc = "exited"
    /\ Len(isegments) > 2 * BATCH_SIZE
    /\ InsertRefused
    /\ Last(requests).batch = 1
    /\ exitCode = 1
    /\ dbSegments(isegments, 0) \subseteq catalog

\* ------------------------------------------------------------ C17
\* The positions that a LINESTRING text lists, in its order: the numbers
\* before and after each blank.
WktPositions(geom) ==
    [k \in 1..((Len(geom) - 1) \div 4) |-> Position(geom[4 * k - 2], geom[4 * k])]

\* The row carries the segment's id, the LINESTRING text of its vertices
\* in their order as longitude then latitude, and a name that ends in the id.
RowOfSegment(row, segment) ==
    /\ row.svg_id = IdString(segment.id)
    /\ Head(row.geom) = "LINESTRING("
    /\ WktPositions(row.geom) = segment.geometry
    /\ SubSeq(row.name, Len(row.name) - 1, Len(row.name)) = IdString(segment.id)

\* C17: every row the writer has stored for a segment carries the
\* segment's run-scoped id, a LINESTRING text listing the segment's
\* vertices in their original order as longitude then latitude, a name
\* derived from the id, and the originating way id.
C17_RowContent ==
    ipc \in {"batch", "caught", "exited"} =>
        \A k \in 1..importedCount :
            \E row \in catalog :
                /\ RowOfSegment(row, isegments[k])
                /\ "originalWayId" \in DOMAIN row
                /\ row.originalWayId = isegments[k].originalWayId

\* ------------------------------------------------------------ C21
\* The index found from searchFrom on has the minimum distance to point
\* among the indices from searchFrom to the end, and is the lowest index
\* at that distance.
NearestAndLowest(coords, point, searchFrom, n) ==
    LET found == nearestVertexIndex(coords, point, searchFrom, n)
        dist(i) == distance(point, n * coords[i])
    IN  /\ found \in searchFrom..Len(coords)
        /\ \A j \in searchFrom..Len(coords) : dist(found) <= dist(j)
        /\ \A j \in searchFrom..(found - 1) : dist(j) > dist(found)

\* C21: the nearest-vertex search returns, among the indices from
\* searchFrom to the end of the line, an index whose vertex is at the
\* minimum distance to the target point, the lowest index at that
\* distance: in the start search and the end search of the split index the
\* loop is at, and, as the loop enters a way, for every split point and
\* vertex of its line as target and every searchFrom.
C21_NearestLowest ==
    InSplit =>
        LET f == features[fi]
            simplified == Simplified(f, config)
            numSegments == NumSegments(length(simplified), config)
            startIndex == startIndexOf(simplified, StartCoord(f, si), numSegments)
        IN  /\ NearestAndLowest(simplified, StartCoord(f, si), 1, numSegments)
            /\ NearestAndLowest(simplified, EndCoord(f, si), startIndex, numSegments)
            /\ si = 0 =>
                   \A p \in ProbePoints(f) : \A from \in 1..Len(simplified) :
                       NearestAndLowest(simplified, p, from, numSegments)

\* The loop is at a split index whose end search meets two vertices at
\* the same minimum distance from the end point.
C21_Witness ==
    /\ InSplit
    /\ features[fi].throwAt # si
    /\ LET f == features[fi]
           simplified == Simplified(f, config)
           numSegments == NumSegments(length(simplified), config)
           startIndex == startIndexOf(simplified, StartCoord(f, si), numSegments)
       IN  ~NearestUnique(simplified, EndCoord(f, si), startIndex, numSegments)

\* ------------------------------------------------------------ C22
\* C22 (as stated): for every way with totalLength > maxSegmentLength:
\* numSegments >= 2, maxSegmentLength / 2 < segmentLength <=
\* maxSegmentLength, the start distance of split index 0 is 0, the end
\* distance of index i is the start distance of index i + 1, and the end
\* distance of the last index is totalLength.
C22_Partition ==
    flpc = "done" /\ flTotalLength > flMax =>
        /\ flNumSegments >= 2
        /\ flMax < 2 * flSegmentLength
        /\ flSegmentLength <= flMax
        /\ flDistances[1].startDistance = 0
        /\ \A i \in 1..(flNumSegments - 1) :
               flDistances[i].endDistance = flDistances[i + 1].startDistance
        /\ flDistances[flNumSegments].endDistance = flTotalLength

\* C22 (amended): for every way with totalLength > maxSegmentLength:
\* numSegments >= 2, maxSegmentLength / 2 < segmentLength, the start
\* distance of split index 0 is 0, the end distance of index i is the start
\* distance of index i + 1; segmentLength exceeds maxSegmentLength by at
\* most one rounding (a fraction 2^(1 - Precision) of it), and the end
\* distance of the last index is at most totalLength and falls short of it
\* by at most one rounding.
C22_PartitionRounded ==
    flpc = "done" /\ flTotalLength > flMax =>
        /\ flNumSegments >= 2
        /\ Len(flDistances) = flNumSegments
        /\ flMax < 2 * flSegmentLength
        /\ (flSegmentLength - flMax) * 2 ^ (Precision - 1) <= flMax
        /\ flDistances[1].startDistance = 0
        /\ \A i \in 1..(flNumSegments - 1) :
               flDistances[i].endDistance = flDistances[i + 1].startDistance
        /\ flDistances[flNumSegments].endDistance <= flTotalLength
        /\ (flTotalLength - flDistances[flNumSegments].endDistance)
               * 2 ^ (Precision - 1) <= flTotalLength

\* A way split in three or more whose last end distance is short of
\* totalLength.
C22_Witness ==
    /\ flpc = "done"
    /\ flTotalLength > flMax
    /\ flNumSegments >= 3
    /\ flDistances[flNumSegments].endDistance < flTotalLength

\* ------------------------------------------------------------ C23
\* The vertices a..b of a line, for some a < b, are this geometry.
IsSubRange(geometry, coords) ==
    \E a, b \in 1..Len(coords) : a < b /\ geometry = SubSeq(coords, a, b)

\* C23: every returned segment's geometry has at least 2 vertices and is a
\* contiguous sub-range of the vertex list of the simplified way named by
\* its originalWayId; no vertex of it is outside the simplified way.
C23_SubRange ==
    pc = "done" =>
        \A j \in 1..Len(outcome.value) :
            LET s == outcome.value[j]
                simplified == Simplified(FeatureOf(s.originalWayId), config)
            IN  /\ Len(s.geometry) >= 2
                /\ IsSubRange(s.geometry, simplified)
                /\ \A v \in 1..Len(s.geometry) :
                       \E k \in 1..Len(simplified) : s.geometry[v] = simplified[k]

\* A returned sub-segment of a split way that is a proper part of the
\* simplified way, which itself lost a vertex of the input.
C23_Witness ==
    /\ pc = "done"
    /\ \E j \in 1..Len(outcome.value), k \in 1..Len(segments) :
           LET f == FeatureOf(segments[k].originalWayId)
           IN  /\ outcome.value[j] = segments[k]
               /\ origin[k].branch = "sub"
               /\ Len(segments[k].geometry) >= 2
               /\ Len(segments[k].geometry) < Len(Simplified(f, config))
               /\ Len(Simplified(f, config)) < Len(f.coordinates)

\* ------------------------------------------------------------ C24
\* C24: a way whose simplified length satisfies minSegmentLength <=
\* totalLength <= maxSegmentLength, the two boundary values included, has
\* exactly one segment in the returned list, whose geometry is the whole
\* simplified line and whose lengthMeters is totalLength.
C24_NormalWayOnce ==
    pc = "done" =>
        \A f \in DoneLines :
            LET totalLength == TotalLength(f, config)
            IN  /\ config.minSegmentLength <= totalLength
                /\ totalLength <= config.maxSegmentLength
                => /\ Len(ReturnedOf(f.id)) = 1
                   /\ ReturnedOf(f.id)[1].geometry = Simplified(f, config)
                   /\ ReturnedOf(f.id)[1].lengthMeters = totalLength

\* A returned list with the segment of a way of exactly minSegmentLength
\* and the segment of a way of exactly maxSegmentLength.
C24_Witness ==
    /\ pc = "done"
    /\ \E f, g \in DoneLines :
           /\ TotalLength(f, config) = config.minSegmentLength
           /\ TotalLength(g, config) = config.maxSegmentLength
           /\ Len(ReturnedOf(f.id)) = 1
           /\ Len(ReturnedOf(g.id)) = 1

\* ------------------------------------------------------------ C25
\* C25: in the returned list the ids are pairwise distinct and their
\* numeric suffixes strictly increase along the list (the filter does not
\* renumber: the suffixes need not be contiguous).
C25_IdsIncrease ==
    pc = "done" =>
        \A j, k \in 1..Len(outcome.value) :
            j < k => outcome.value[j].id < outcome.value[k].id

\* A returned list of a pass whose ids skip a suffix: a segment below the
\* minimum was emitted between two that are returned.
C25_Witness ==
    /\ pc = "done"
    /\ second # "workers"
    /\ \E j \in 1..(Len(outcome.value) - 1) :
           /\ outcome.value[j + 1].id > outcome.value[j].id + 1
           /\ \E k \in 1..Len(segments) :
                  /\ segments[k].id = outcome.value[j].id + 1
                  /\ segments[k].lengthMeters < config.minSegmentLength

\* ------------------------------------------------------------ C26
\* C26: for every returned segment, lengthMeters is the sum of the
\* distances between consecutive vertices of the segment's own geometry.
C26_MeasuredLength ==
    pc = "done" =>
        \A j \in 1..Len(outcome.value) :
            outcome.value[j].lengthMeters = length(outcome.value[j].geometry)

\* A returned sub-segment of a split way whose length is neither the
\* nominal segmentLength nor the length of the whole simplified way.
C26_Witness ==
    /\ pc = "done"
    /\ \E j \in 1..Len(outcome.value), k \in 1..Len(segments) :
           LET f == FeatureOf(segments[k].originalWayId)
               totalLength == TotalLength(f, config)
           IN  /\ outcome.value[j] = segments[k]
               /\ origin[k].branch = "sub"
               /\ segments[k].lengthMeters # totalLength
               /\ segments[k].lengthMeters * NumSegments(totalLength, config) # totalLength

\* ------------------------------------------------------------ C27
\* The positions in the simplified way of the first and of the last vertex
\* of the sub-segment emitted for split index i: the located range, or the
\* whole line when the range has fewer than two vertices (line 162).
FirstVertex(f, i) ==
    LET simplified == Simplified(f, config)
    IN  IF Degenerate(f, i) THEN 1
        ELSE startIndexOf(simplified, StartCoord(f, i),
                          NumSegments(length(simplified), config))

LastVertex(f, i) ==
    LET simplified == Simplified(f, config)
    IN  IF Degenerate(f, i) THEN Len(simplified)
        ELSE endIndexOf(simplified, StartCoord(f, i), EndCoord(f, i),
                        NumSegments(length(simplified), config))

\* C27: for every split way, consecutive sub-segments join: the last vertex
\* of the sub-segment emitted for split index i is the same vertex of the
\* simplified way as the first vertex of the sub-segment emitted for index
\* i + 1, and the start indices of successive sub-segments never decrease.
C27_SubSegmentsJoin ==
    InSplit /\ si >= 2 =>
        /\ LastVertex(features[fi], si - 2) = FirstVertex(features[fi], si - 1)
        /\ FirstVertex(features[fi], si - 2) <= FirstVertex(features[fi], si - 1)

\* ------------------------------------------------------------ C28
\* The inserts among the requests of the run, and the keys they sent, in
\* the order they were sent.
Inserts == SelectSeq(requests, LAMBDA r : r.op = "insert")

RECURSIVE SentKeys(_)
SentKeys(reqs) ==
    IF reqs = << >> THEN << >> ELSE Head(reqs).keys \o SentKeys(Tail(reqs))

\* C28: in an import where no insert fails, every input segment is
\* inserted exactly once, in input order, in batches of which every one
\* but the last holds exactly 100 records and the last holds between 1 and
\* 100; the final imported count is the number of input segments, and an
\* empty input issues no insert.
C28_BatchesCoverInput ==
    EndedClean =>
        /\ \A p \in 1..Len(Inserts) : Inserts[p].ok
        /\ SentKeys(Inserts) = [k \in 1..Len(isegments) |-> IdString(isegments[k].id)]
        /\ \A p \in 1..(Len(Inserts) - 1) : Inserts[p].count = 100
        /\ Inserts # << >> => Last(Inserts).count \in 1..100
        /\ importedCount = Len(isegments)
        /\ isegments = << >> => Inserts = << >>

\* An import of two full batches and a last batch of one record has ended
\* without error.
C28_Witness ==
    /\ EndedClean
    /\ Len(isegments) = 2 * BATCH_SIZE + 1
    /\ Len(Inserts) = 3
    /\ Last(Inserts).count = 1
    /\ importedCount = 2 * BATCH_SIZE + 1

\* ------------------------------------------------------------ C29
\* C29: the delete of the existing catalog rows is issued only after the
\* fetch and the segmentation have both completed without error; when the
\* fetch or the segmentation fails, no delete and no insert is issued and
\* the stored catalog is what it was when the run started.
C29_DeleteAfterSegmentation ==
    /\ requests # << >> =>
           /\ history.steps = << "fetch", "segment" >>
           /\ thrown.code \notin {"fetch", "segment"}
    /\ thrown.code \in {"fetch", "segment"} =>
           /\ requests = << >>
           /\ catalog = history.catalog

\* A second run ends on a failed segmentation after its fetch completed:
\* the rows that the first run stored after its delete are all there.
C29_Witness ==
    /\ ipc = "exited"
    /\ irun = 2
    /\ firstRun[1].requests # << >>
    /\ firstRun[1].requests[1].op = "delete"
    /\ firstRun[1].exitCode = 0
    /\ history.steps = << "fetch" >>
    /\ thrown.code = "segment"
    /\ catalog # {}
    /\ catalog = firstRun[1].catalog

\* ------------------------------------------------------------ C30
\* C30: from the moment checkAndRegisterVisit sends a register-visit
\* request until 30 seconds after that request has completed, no second
\* register-visit request is sent, for every interleaving of position
\* updates, manual-check clicks, re-renders and cooldown timer expiry.
C30_OneRequestPerCooldown ==
    \A i, j \in 1..Len(mcalls) :
        i < j =>
            /\ mcalls[i].done # NoTime
            /\ mcalls[j].at >= mcalls[i].done + COOLDOWN
====
